---------------------------- MODULE Spec2Model ----------------------------
(***************************************************************************)
(* A model of windows_paint.py: class Canvas (the cell grid, line drawing  *)
(* and flood fill) and class WindowsPainter (the interactive session: the  *)
(* run loop, the key handlers and the incremental renderer draw_canvas).   *)
(*                                                                         *)
(* Python lists are modelled as functions over 0..n-1, so pixels[y][x] is  *)
(* written as in the source.  Glyphs and colour codes are strings; the     *)
(* non-ASCII glyphs of the palette are written by name ("FULL_BLOCK" is    *)
(* U+2588, "DARK_SHADE" is U+2593, ...).                                    *)
(***************************************************************************)
EXTENDS Integers, Sequences, FiniteSets, TLC

VARIABLES
    canvas,             \* the Canvas object: width, height, pixels, colors, bg_colors
    cursor,             \* WindowsPainter.cursor
    current_char,       \* WindowsPainter.current_char
    current_color,      \* WindowsPainter.current_color
    current_bg,         \* WindowsPainter.current_bg
    drawing_mode,       \* WindowsPainter.drawing_mode
    last_point,         \* WindowsPainter.last_point (None or a Point)
    running,            \* WindowsPainter.running
    color_index,        \* WindowsPainter.color_index (0-based, as in the source)
    char_index,         \* WindowsPainter.char_index  (0-based, as in the source)
    screen_buffer,      \* WindowsPainter.screen_buffer: the retained previous frame
    last_cursor,        \* WindowsPainter.last_cursor
    needs_full_redraw,  \* WindowsPainter.needs_full_redraw
    pc,                 \* position in WindowsPainter.run
    terminal,           \* the output sink: what the console shows in the canvas area
    emitted,            \* the cells the last draw_canvas printed, in order
    saved,              \* the lines of the last file save_canvas wrote
    keys,               \* number of keys read so far
    call,               \* the last operation applied and its arguments
    old,                \* the canvas before the last operation
    writes              \* the in-bounds set_pixel writes of the last operation, in order

\* everything but the canvas and the record of the last operation
svars == <<cursor, current_char, current_color, current_bg, drawing_mode,
           last_point, running, color_index, char_index, screen_buffer,
           last_cursor, needs_full_redraw, pc, terminal, emitted, saved, keys>>
vars == <<canvas, cursor, current_char, current_color, current_bg, drawing_mode,
          last_point, running, color_index, char_index, screen_buffer,
          last_cursor, needs_full_redraw, pc, terminal, emitted, saved, keys,
          call, old, writes>>

---------------------------------------------------------------------------
(* Bounds of the model.                                                    *)

\* Canvas method calls are checked on canvases of every size up to MaxDim x MaxDim
\* that has at most MaxCells cells.
MaxDim == 3
MaxCells == 9
\* draw_line is checked on canvases of every size up to MaxLineDim x MaxLineDim.
MaxLineDim == 4
\* The canvases flood_fill is stepped on have at most MaxFillCells cells.
MaxFillCells == 6
\* The session's canvas is CanvasW x CanvasH (the program's is 60 x 20).
CanvasW == 3
CanvasH == 2
\* The session's palettes keep the first NColors colours and the first
\* NChars - 1 glyphs followed by the last glyph (the space) of the program's.
NColors == 2
NChars == 3
\* A session reads at most MaxKeys keys.
MaxKeys == 5

---------------------------------------------------------------------------
(* colorama's codes and the glyph literals of the source.                  *)

ForeWHITE == "Fore.WHITE"
ForeRED == "Fore.RED"
ForeGREEN == "Fore.GREEN"
ForeBLUE == "Fore.BLUE"
ForeYELLOW == "Fore.YELLOW"
ForeMAGENTA == "Fore.MAGENTA"
ForeCYAN == "Fore.CYAN"
ForeBLACK == "Fore.BLACK"
BackBLACK == "Back.BLACK"
BackWHITE == "Back.WHITE"
BackBLUE == "Back.BLUE"
\* ' ', the glyph of an empty cell
Space == " "
\* '+', shown at the cursor over an empty cell
Plus == "+"
\* None; every value it is compared with is a record too
None == [none |-> TRUE]

Point(x, y) == [x |-> x, y |-> y]

---------------------------------------------------------------------------
(* class Canvas                                                            *)

\* Canvas.__init__: three height x width lists of lists.  range(n) is empty
\* for n <= 0, and so is 0..n-1.
Canvas(width, height) ==
    [width     |-> width,
     height    |-> height,
     pixels    |-> [y \in 0..(height - 1) |-> [x \in 0..(width - 1) |-> Space]],
     colors    |-> [y \in 0..(height - 1) |-> [x \in 0..(width - 1) |-> ForeWHITE]],
     bg_colors |-> [y \in 0..(height - 1) |-> [x \in 0..(width - 1) |-> BackBLACK]]]

\* the test "0 <= x < self.width and 0 <= y < self.height"
in_bounds(c, x, y) == 0 <= x /\ x < c.width /\ 0 <= y /\ y < c.height

\* set_pixel dropping its bg_color argument.
set_pixel_no_bg(c, x, y, char, color, bg_color) ==
    IF in_bounds(c, x, y)
    THEN [c EXCEPT !.pixels[y][x] = char,
                   !.colors[y][x] = color,
                   !.bg_colors[y][x] = BackBLACK]
    ELSE c

\* set_pixel clamping an out-of-range coordinate to the nearest cell instead
\* of ignoring the write.
set_pixel_clamped(c, x, y, char, color, bg_color) ==
    IF c.width <= 0 \/ c.height <= 0 THEN c
    ELSE LET cx == IF x < 0 THEN 0 ELSE IF x >= c.width THEN c.width - 1 ELSE x
             cy == IF y < 0 THEN 0 ELSE IF y >= c.height THEN c.height - 1 ELSE y
         IN  [c EXCEPT !.pixels[cy][cx] = char,
                       !.colors[cy][cx] = color,
                       !.bg_colors[cy][cx] = bg_color]

set_pixel(c, x, y, char, color, bg_color) ==
    IF in_bounds(c, x, y)
    THEN [c EXCEPT !.pixels[y][x] = char,
                   !.colors[y][x] = color,
                   !.bg_colors[y][x] = bg_color]
    ELSE c

get_pixel(c, x, y) ==
    IF in_bounds(c, x, y) THEN c.pixels[y][x] ELSE Space

clear(c) == Canvas(c.width, c.height)

\* A method's run: the canvas and the log of its in-bounds set_pixel writes.
Run(c) == [canvas |-> c, writes |-> <<>>]

\* self.set_pixel(x, y, char, color) inside a method: bg_color takes its
\* default, Back.BLACK.
write_pixel(r, x, y, char, color) ==
    [canvas |-> set_pixel(r.canvas, x, y, char, color, BackBLACK),
     writes |-> IF in_bounds(r.canvas, x, y)
                THEN Append(r.writes, Point(x, y))
                ELSE r.writes]

abs(n) == IF n < 0 THEN 0 - n ELSE n

\* The body of "for _ in range(n)" in draw_line, n iterations from (x, y).
RECURSIVE draw_line_loop(_, _, _, _, _, _)
draw_line_loop(r, x, y, error, n, p) ==
    IF n <= 0 THEN r
    ELSE LET r1 == write_pixel(r, x, y, p.char, p.color)
         IN  IF error > 0
             THEN draw_line_loop(r1, x + p.x_inc, y, error - p.dy, n - 1, p)
             ELSE draw_line_loop(r1, x, y + p.y_inc, error + p.dx, n - 1, p)

\* draw_line with the step count of the classic algorithm, 1 + max(dx, dy).
draw_line_run_classic(c, start, end, char, color) ==
    LET dx == abs(end.x - start.x)
        dy == abs(end.y - start.y)
    IN  draw_line_loop(Run(c), start.x, start.y, dx - dy,
                       1 + (IF dx > dy THEN dx ELSE dy),
                       [x_inc |-> IF end.x > start.x THEN 1 ELSE 0 - 1,
                        y_inc |-> IF end.y > start.y THEN 1 ELSE 0 - 1,
                        dx |-> dx * 2, dy |-> dy * 2,
                        char |-> char, color |-> color])

draw_line_run(c, start, end, char, color) ==
    LET x0 == start.x
        y0 == start.y
        x1 == end.x
        y1 == end.y
        dx == abs(x1 - x0)
        dy == abs(y1 - y0)
        n == 1 + dx + dy
        x_inc == IF x1 > x0 THEN 1 ELSE 0 - 1
        y_inc == IF y1 > y0 THEN 1 ELSE 0 - 1
        error == dx - dy
    IN  draw_line_loop(Run(c), x0, y0, error, n,
                       [x_inc |-> x_inc, y_inc |-> y_inc,
                        dx |-> dx * 2, dy |-> dy * 2,
                        char |-> char, color |-> color])

draw_line(c, start, end, char, color) ==
    draw_line_run(c, start, end, char, color).canvas

\* flood_fill's iteration pushing the four diagonal neighbours as well.
flood_fill_iter_8(f, original_char, new_char, new_color) ==
    LET top == f.stack[Len(f.stack)]
        rest == SubSeq(f.stack, 1, Len(f.stack) - 1)
        cx == top[1]
        cy == top[2]
        c == f.run.canvas
    IN  IF cx < 0 \/ cx >= c.width \/ cy < 0 \/ cy >= c.height
        THEN [f EXCEPT !.stack = rest]
        ELSE IF get_pixel(c, cx, cy) /= original_char
        THEN [f EXCEPT !.stack = rest]
        ELSE [run |-> write_pixel(f.run, cx, cy, new_char, new_color),
              stack |-> rest \o << <<cx + 1, cy>>, <<cx - 1, cy>>,
                                   <<cx, cy + 1>>, <<cx, cy - 1>>,
                                   <<cx + 1, cy + 1>>, <<cx - 1, cy - 1>>,
                                   <<cx + 1, cy - 1>>, <<cx - 1, cy + 1>> >>]

\* The loop body without the test of the popped cell's glyph
flood_fill_iter_revisit(f, original_char, new_char, new_color) ==
    LET top == f.stack[Len(f.stack)]
        rest == SubSeq(f.stack, 1, Len(f.stack) - 1)
        cx == top[1]
        cy == top[2]
        c == f.run.canvas
    IN  IF cx < 0 \/ cx >= c.width \/ cy < 0 \/ cy >= c.height
        THEN [f EXCEPT !.stack = rest]
        ELSE [run |-> write_pixel(f.run, cx, cy, new_char, new_color),
              stack |-> rest \o << <<cx + 1, cy>>, <<cx - 1, cy>>,
                                   <<cx, cy + 1>>, <<cx, cy - 1>> >>]

\* One iteration of "while stack" in flood_fill; f holds the run and the stack.
flood_fill_iter(f, original_char, new_char, new_color) ==
    LET top == f.stack[Len(f.stack)]
        rest == SubSeq(f.stack, 1, Len(f.stack) - 1)
        cx == top[1]
        cy == top[2]
        c == f.run.canvas
    IN  IF cx < 0 \/ cx >= c.width \/ cy < 0 \/ cy >= c.height
        THEN [f EXCEPT !.stack = rest]
        ELSE IF get_pixel(c, cx, cy) /= original_char
        THEN [f EXCEPT !.stack = rest]
        ELSE [run |-> write_pixel(f.run, cx, cy, new_char, new_color),
              stack |-> rest \o << <<cx + 1, cy>>, <<cx - 1, cy>>,
                                   <<cx, cy + 1>>, <<cx, cy - 1>> >>]

RECURSIVE flood_fill_loop(_, _, _, _)
flood_fill_loop(f, original_char, new_char, new_color) ==
    IF f.stack = <<>> THEN f.run
    ELSE flood_fill_loop(flood_fill_iter(f, original_char, new_char, new_color),
                         original_char, new_char, new_color)

\* flood_fill repainting the seed cell when its glyph already is new_char.
flood_fill_run_recolor(c, x, y, new_char, new_color) ==
    IF x < 0 \/ x >= c.width \/ y < 0 \/ y >= c.height
    THEN Run(c)
    ELSE LET original_char == get_pixel(c, x, y)
         IN  IF original_char = new_char
             THEN write_pixel(Run(c), x, y, new_char, new_color)
             ELSE flood_fill_loop([run |-> Run(c), stack |-> << <<x, y>> >>],
                                  original_char, new_char, new_color)

flood_fill_run(c, x, y, new_char, new_color) ==
    IF x < 0 \/ x >= c.width \/ y < 0 \/ y >= c.height
    THEN Run(c)
    ELSE LET original_char == get_pixel(c, x, y)
         IN  IF original_char = new_char
             THEN Run(c)
             ELSE flood_fill_loop([run |-> Run(c), stack |-> << <<x, y>> >>],
                                  original_char, new_char, new_color)

flood_fill(c, x, y, new_char, new_color) ==
    flood_fill_run(c, x, y, new_char, new_color).canvas

---------------------------------------------------------------------------
(* class WindowsPainter: construction                                       *)

\* self.colors as written in the source
AllColors ==
    << <<ForeWHITE, "White">>, <<ForeRED, "Red">>, <<ForeGREEN, "Green">>,
       <<ForeBLUE, "Blue">>, <<ForeYELLOW, "Yellow">>, <<ForeMAGENTA, "Magenta">>,
       <<ForeCYAN, "Cyan">>, <<ForeBLACK, "Black">> >>

\* self.chars as written in the source
AllChars ==
    <<"FULL_BLOCK", "DARK_SHADE", "MEDIUM_SHADE", "LIGHT_SHADE", "BLACK_CIRCLE",
      "WHITE_CIRCLE", "*", "#", "@", "+", "-", "|", ".", " ">>

\* The palettes of the model (see NColors and NChars).
colors == SubSeq(AllColors, 1, NColors)
chars == SubSeq(AllChars, 1, NChars - 1) \o <<AllChars[Len(AllChars)]>>

\* WindowsPainter.__init__: the object's fields, and the console after
\* os.system('cls'): terminal maps the canvas positions printed since the
\* screen was cleared to the cell text shown there.
WindowsPainter(width, height) ==
    [canvas            |-> Canvas(width, height),
     cursor            |-> Point(0, 0),
     current_char      |-> AllChars[1],
     current_color     |-> ForeWHITE,
     current_bg        |-> BackBLACK,
     drawing_mode      |-> FALSE,
     last_point        |-> None,
     running           |-> TRUE,
     color_index       |-> 0,
     char_index        |-> 0,
     screen_buffer     |-> <<>>,
     last_cursor       |-> Point(0 - 1, 0 - 1),
     needs_full_redraw |-> TRUE,
     terminal          |-> <<>>,
     emitted           |-> <<>>,
     saved             |-> None]

\* The object as a record of the variables, and the variables set from one.
Self ==
    [canvas            |-> canvas,
     cursor            |-> cursor,
     current_char      |-> current_char,
     current_color     |-> current_color,
     current_bg        |-> current_bg,
     drawing_mode      |-> drawing_mode,
     last_point        |-> last_point,
     running           |-> running,
     color_index       |-> color_index,
     char_index        |-> char_index,
     screen_buffer     |-> screen_buffer,
     last_cursor       |-> last_cursor,
     needs_full_redraw |-> needs_full_redraw,
     terminal          |-> terminal,
     emitted           |-> emitted,
     saved             |-> saved]

Holds(self) ==
    /\ canvas = self.canvas
    /\ cursor = self.cursor
    /\ current_char = self.current_char
    /\ current_color = self.current_color
    /\ current_bg = self.current_bg
    /\ drawing_mode = self.drawing_mode
    /\ last_point = self.last_point
    /\ running = self.running
    /\ color_index = self.color_index
    /\ char_index = self.char_index
    /\ screen_buffer = self.screen_buffer
    /\ last_cursor = self.last_cursor
    /\ needs_full_redraw = self.needs_full_redraw
    /\ terminal = self.terminal
    /\ emitted = self.emitted
    /\ saved = self.saved

Becomes(self) ==
    /\ canvas' = self.canvas
    /\ cursor' = self.cursor
    /\ current_char' = self.current_char
    /\ current_color' = self.current_color
    /\ current_bg' = self.current_bg
    /\ drawing_mode' = self.drawing_mode
    /\ last_point' = self.last_point
    /\ running' = self.running
    /\ color_index' = self.color_index
    /\ char_index' = self.char_index
    /\ screen_buffer' = self.screen_buffer
    /\ last_cursor' = self.last_cursor
    /\ needs_full_redraw' = self.needs_full_redraw
    /\ terminal' = self.terminal
    /\ emitted' = self.emitted
    /\ saved' = self.saved

---------------------------------------------------------------------------
(* class WindowsPainter: the renderer                                      *)

\* len() of a list modelled as a function over 0..n-1
len(l) == Cardinality(DOMAIN l)

StyleRESET_ALL == "Style.RESET_ALL"

\* The cell text draw_canvas builds for (x, y): the f-string of background
\* code, foreground code, glyph and reset code, kept as a record of its parts.
render_cell(self, x, y) ==
    LET char == self.canvas.pixels[y][x]
        color == self.canvas.colors[y][x]
        bg_color == self.canvas.bg_colors[y][x]
    IN  IF x = self.cursor.x /\ y = self.cursor.y
        THEN [bg_color |-> BackWHITE, color |-> ForeBLACK,
              char |-> IF char = Space THEN Plus ELSE char,
              reset |-> StyleRESET_ALL]
        ELSE [bg_color |-> bg_color, color |-> color, char |-> char,
              reset |-> StyleRESET_ALL]

\* current_screen of draw_canvas
render_screen(self) ==
    [y \in 0..(self.canvas.height - 1) |->
        [x \in 0..(self.canvas.width - 1) |-> render_cell(self, x, y)]]

\* The positions of a list of rows in row-major order, as the nested for
\* loops of draw_canvas visit them.
RECURSIVE row_major(_, _, _)
row_major(screen, y, x) ==
    IF y >= len(screen) THEN <<>>
    ELSE IF x >= len(screen[y]) THEN row_major(screen, y + 1, 0)
    ELSE <<Point(x, y)>> \o row_major(screen, y, x + 1)

\* move_to(x, y) and print(cell) for each position of ps in turn
RECURSIVE print_cells(_, _, _)
print_cells(term, screen, ps) ==
    IF ps = <<>> THEN term
    ELSE LET q == Head(ps)
             k == <<q.x, q.y>>
         IN  print_cells([j \in DOMAIN term \cup {k} |->
                              IF j = k THEN screen[q.y][q.x] ELSE term[j]],
                         screen, Tail(ps))

\* The incremental test comparing glyphs only, not the colour codes.
cell_changed_glyph_only(buffer, screen, q) ==
    \/ q.y >= len(buffer)
    \/ q.x >= len(buffer[q.y])
    \/ buffer[q.y][q.x] = None
    \/ screen[q.y][q.x].char /= buffer[q.y][q.x].char

\* The test of the incremental branch for position q.
cell_changed(buffer, screen, q) ==
    \/ q.y >= len(buffer)
    \/ q.x >= len(buffer[q.y])
    \/ screen[q.y][q.x] /= buffer[q.y][q.x]

\* The incremental branch without the assignment to the buffer.
update_buffer_skip(buffer, screen) == buffer

\* The incremental branch: the buffer after the nested loops.
update_buffer(buffer, screen) ==
    [y \in DOMAIN buffer |->
        [x \in DOMAIN buffer[y] |->
            IF y < len(screen) /\ x < len(screen[y])
               /\ screen[y][x] /= buffer[y][x]
            THEN screen[y][x]
            ELSE buffer[y][x]]]

\* draw_canvas storing the cursor's '+' into the canvas cell it highlights
draw_canvas_bakes(self) ==
    LET x == self.cursor.x
        y == self.cursor.y
        current_screen == render_screen(self)
    IN  [self EXCEPT
            !.canvas = IF in_bounds(@, x, y) /\ @.pixels[y][x] = Space
                       THEN [@ EXCEPT !.pixels[y][x] = Plus]
                       ELSE @,
            !.emitted = row_major(current_screen, 0, 0),
            !.terminal = print_cells(@, current_screen,
                                     row_major(current_screen, 0, 0)),
            !.screen_buffer = current_screen,
            !.needs_full_redraw = FALSE,
            !.last_cursor = Point(x, y)]

\* draw_canvas.  The status line and the help text are printed below the
\* canvas area and are not part of terminal.
draw_canvas(self) ==
    LET current_screen == render_screen(self)
        all == row_major(current_screen, 0, 0)
    IN  IF self.needs_full_redraw \/ len(self.screen_buffer) = 0
        THEN [self EXCEPT !.terminal = print_cells(@, current_screen, all),
                          !.emitted = all,
                          !.screen_buffer = current_screen,
                          !.needs_full_redraw = FALSE,
                          !.last_cursor = Point(self.cursor.x, self.cursor.y)]
        ELSE LET changed == SelectSeq(all,
                                LAMBDA q : cell_changed(self.screen_buffer,
                                                        current_screen, q))
             IN  [self EXCEPT !.terminal = print_cells(@, current_screen, changed),
                              !.emitted = changed,
                              !.screen_buffer = update_buffer(@, current_screen),
                              !.last_cursor = Point(self.cursor.x, self.cursor.y)]

\* clear_screen: os.system('cls') blanks the console.
clear_screen(self) ==
    [self EXCEPT !.terminal = <<>>, !.needs_full_redraw = TRUE]

---------------------------------------------------------------------------
(* class WindowsPainter: the key handlers                                  *)

max(a, b) == IF a >= b THEN a ELSE b
min(a, b) == IF a <= b THEN a ELSE b

\* new_x and new_y without the clamping
new_position_unclamped(self, dx, dy) ==
    Point(self.cursor.x + dx, self.cursor.y + dy)

\* new_x and new_y of move_cursor
new_position(self, dx, dy) ==
    Point(max(0, min(self.canvas.width - 1, self.cursor.x + dx)),
          max(0, min(self.canvas.height - 1, self.cursor.y + dy)))

\* move_cursor assigning self.cursor before it draws
move_cursor_late(self, dx, dy) ==
    LET new == new_position(self, dx, dy)
    IN  [self EXCEPT
            !.canvas = IF self.drawing_mode
                       THEN draw_line(@, new, new,
                                      self.current_char, self.current_color)
                       ELSE @,
            !.cursor = new]

\* move_cursor drawing whatever the mode
move_cursor_always_draws(self, dx, dy) ==
    LET new == new_position(self, dx, dy)
    IN  [self EXCEPT
            !.canvas = draw_line(@, self.cursor, new,
                                 self.current_char, self.current_color),
            !.cursor = new]

move_cursor(self, dx, dy) ==
    LET new == new_position(self, dx, dy)
    IN  [self EXCEPT
            !.canvas = IF self.drawing_mode
                       THEN draw_line(@, self.cursor, new,
                                      self.current_char, self.current_color)
                       ELSE @,
            !.cursor = new]

\* invalidate_canvas_area marking the cursor's cell only
invalidate_canvas_area_cursor(self) ==
    IF len(self.screen_buffer) = 0 THEN self
    ELSE [self EXCEPT !.screen_buffer =
            [y \in DOMAIN @ |->
                [x \in DOMAIN @[y] |->
                    IF y = self.cursor.y /\ x = self.cursor.x
                    THEN None
                    ELSE @[y][x]]]]

\* invalidate_canvas_area: None marks a buffered cell as invalid
invalidate_canvas_area(self) ==
    IF len(self.screen_buffer) = 0 THEN self
    ELSE [self EXCEPT !.screen_buffer =
            [y \in DOMAIN @ |->
                [x \in DOMAIN @[y] |->
                    IF y < min(len(@), self.canvas.height)
                       /\ x < min(len(@[y]), self.canvas.width)
                    THEN None
                    ELSE @[y][x]]]]

\* toggle_pixel clearing a cell with the current colours
toggle_pixel_clear_current(self) ==
    LET x == self.cursor.x
        y == self.cursor.y
        painted ==
            IF get_pixel(self.canvas, x, y) = Space
            THEN set_pixel(self.canvas, x, y, self.current_char,
                           self.current_color, self.current_bg)
            ELSE set_pixel(self.canvas, x, y, Space,
                           self.current_color, self.current_bg)
    IN  invalidate_canvas_area([self EXCEPT !.canvas = painted,
                                            !.last_point = Point(x, y)])

\* toggle_pixel without the assignment to self.last_point
toggle_pixel_no_last(self) ==
    LET x == self.cursor.x
        y == self.cursor.y
        painted ==
            IF get_pixel(self.canvas, x, y) = Space
            THEN set_pixel(self.canvas, x, y, self.current_char,
                           self.current_color, self.current_bg)
            ELSE set_pixel(self.canvas, x, y, Space, ForeWHITE, BackBLACK)
    IN  invalidate_canvas_area([self EXCEPT !.canvas = painted])

toggle_pixel(self) ==
    LET x == self.cursor.x
        y == self.cursor.y
        painted ==
            IF get_pixel(self.canvas, x, y) = Space
            THEN set_pixel(self.canvas, x, y, self.current_char,
                           self.current_color, self.current_bg)
            ELSE set_pixel(self.canvas, x, y, Space, ForeWHITE, BackBLACK)
    IN  invalidate_canvas_area([self EXCEPT !.canvas = painted,
                                            !.last_point = Point(x, y)])

toggle_drawing_mode(self) ==
    [self EXCEPT !.drawing_mode = ~@]

next_color(self) ==
    LET i == (self.color_index + 1) % Len(colors)
    IN  [self EXCEPT !.color_index = i, !.current_color = colors[i + 1][1]]

\* next_char reading the glyph before it advances the index
next_char_stale(self) ==
    LET i == (self.char_index + 1) % Len(chars)
    IN  [self EXCEPT !.char_index = i,
                     !.current_char = chars[self.char_index + 1]]

next_char(self) ==
    LET i == (self.char_index + 1) % Len(chars)
    IN  [self EXCEPT !.char_index = i, !.current_char = chars[i + 1]]

\* draw_line_to_last testing the coordinates of last_point for truth: the
\* origin counts as unset
draw_line_to_last_falsy(self) ==
    IF self.last_point /= None /\ self.last_point /= Point(0, 0)
    THEN invalidate_canvas_area(
             [self EXCEPT !.canvas = draw_line(@, self.cursor, self.last_point,
                                               self.current_char,
                                               self.current_color)])
    ELSE self

\* "if self.last_point": a Point is always true, None is false.
draw_line_to_last(self) ==
    IF self.last_point /= None
    THEN invalidate_canvas_area(
             [self EXCEPT !.canvas = draw_line(@, self.cursor, self.last_point,
                                               self.current_char,
                                               self.current_color)])
    ELSE self

painter_flood_fill(self) ==
    invalidate_canvas_area(
        [self EXCEPT !.canvas = flood_fill(@, self.cursor.x, self.cursor.y,
                                           self.current_char, self.current_color)])

\* str.rstrip() of a row of single-character glyphs: the trailing spaces go.
RECURSIVE rstrip(_)
rstrip(line) ==
    IF line = <<>> THEN line
    ELSE IF line[Len(line)] = Space THEN rstrip(SubSeq(line, 1, Len(line) - 1))
    ELSE line

\* ''.join(self.canvas.pixels[y]) as the sequence of its glyphs
join_row(c, y) == [i \in 1..max(c.width, 0) |-> c.pixels[y][i - 1]]

\* save_canvas writing each row as it is, without rstrip
save_canvas_unstripped(self, ok) ==
    IF ok
    THEN [self EXCEPT !.saved =
            [lines |-> [i \in 1..max(self.canvas.height, 0) |->
                           join_row(self.canvas, i - 1)]]]
    ELSE self

\* save_canvas: one stripped line per row; when open or write fails the
\* error is printed and nothing is kept.
save_canvas(self, ok) ==
    IF ok
    THEN [self EXCEPT !.saved =
            [lines |-> [i \in 1..max(self.canvas.height, 0) |->
                           rstrip(join_row(self.canvas, i - 1))]]]
    ELSE self

\* The glyph ramp of load_image and its index int(pixel_value / 255 * 9).
ramp == <<" ", ".", ":", "-", "=", "+", "*", "#", "%", "@">>
ramp_char(pixel_value) == ramp[((pixel_value * (Len(ramp) - 1)) \div 255) + 1]

\* load_image with img the grey levels of the image resized to the canvas.
load_image(self, img) ==
         [self EXCEPT
            !.canvas =
                [@ EXCEPT
                    !.pixels = [y \in DOMAIN @ |-> [x \in DOMAIN @[y] |->
                                    ramp_char(img[y][x])]],
                    !.colors = [y \in DOMAIN @ |-> [x \in DOMAIN @[y] |->
                                    self.current_color]],
                    !.bg_colors = [y \in DOMAIN @ |-> [x \in DOMAIN @[y] |->
                                    self.current_bg]]],
            !.needs_full_redraw = TRUE]

\* The 'q' branch without its assignment
quit_ignored(self) == self

quit(self) == [self EXCEPT !.running = FALSE]

---------------------------------------------------------------------------
(* Canvas method calls on their own: a canvas of any size is constructed,  *)
(* written through set_pixel, and one method is called on it with          *)
(* arguments in and out of bounds.                                         *)

Dims == (0 - 1)..MaxDim
Coords == (0 - 1)..MaxDim
LineDims == 0..MaxLineDim
LineCoords == 0..(MaxLineDim - 1)
GridGlyphs == {Space, "#"}
Glyphs == {Space, "#", "*"}
NewGlyphs == {Space, "*"}
BgColors == {BackBLACK, BackWHITE}

\* The cells of a canvas, as Points.
Cells(c) == {Point(x, y) : x \in 0..(c.width - 1), y \in 0..(c.height - 1)}

\* The glyph matrices of a width x height canvas.
Matrices(width, height, glyphs) ==
    [0..(height - 1) -> [0..(width - 1) -> glyphs]]
UniformMatrices(width, height, glyphs) ==
    {[y \in 0..(height - 1) |-> [x \in 0..(width - 1) |-> g]] : g \in glyphs}

\* set_pixel on every cell in row-major order from cell number i on: glyph
\* m[y][x]; with tint, the cells with x + y odd get Fore.RED on Back.BLUE,
\* so that any two neighbouring cells differ in colour.
RECURSIVE populate(_, _, _, _)
populate(c, m, tint, i) ==
    IF c.width <= 0 \/ c.height <= 0 \/ i >= c.width * c.height THEN c
    ELSE LET x == i % c.width
             y == i \div c.width
             odd == tint /\ (x + y) % 2 = 1
         IN  populate(set_pixel(c, x, y, m[y][x],
                                IF odd THEN ForeRED ELSE ForeWHITE,
                                IF odd THEN BackBLUE ELSE BackBLACK),
                      m, tint, i + 1)

Construct(dims, cells) ==
    \E width \in dims, height \in dims :
        /\ width * height <= cells
        /\ Holds(WindowsPainter(width, height))
        /\ old = Canvas(width, height)
        /\ call = [op |-> "Canvas", width |-> width, height |-> height,
                   raised |-> None]
        /\ writes = <<>>
        /\ pc = "constructed"
        /\ keys = 0

Populate(m, tint) ==
    /\ call.op = "Canvas"
    /\ canvas' = populate(canvas, m, tint, 0)
    /\ old' = canvas
    /\ call' = [op |-> "populate"]
    /\ writes' = <<>>
    /\ UNCHANGED svars

CanCall == call.op \in {"Canvas", "populate"}

CallSetPixel(x, y, char, color, bg_color) ==
    /\ CanCall
    /\ canvas' = set_pixel(canvas, x, y, char, color, bg_color)
    /\ old' = canvas
    /\ call' = [op |-> "set_pixel", x |-> x, y |-> y, char |-> char,
                color |-> color, bg_color |-> bg_color, raised |-> None]
    /\ writes' = IF in_bounds(canvas, x, y) THEN <<Point(x, y)>> ELSE <<>>
    /\ UNCHANGED svars

CallGetPixel(x, y) ==
    /\ CanCall
    /\ call' = [op |-> "get_pixel", x |-> x, y |-> y,
                ret |-> get_pixel(canvas, x, y), raised |-> None]
    /\ old' = canvas
    /\ writes' = <<>>
    /\ UNCHANGED <<canvas, svars>>

CallClear ==
    /\ CanCall
    /\ canvas' = clear(canvas)
    /\ old' = canvas
    /\ call' = [op |-> "clear"]
    /\ writes' = <<>>
    /\ UNCHANGED svars

CallFloodFill(x, y, new_char, new_color) ==
    /\ CanCall
    /\ LET r == flood_fill_run(canvas, x, y, new_char, new_color)
       IN  canvas' = r.canvas /\ writes' = r.writes
    /\ old' = canvas
    /\ call' = [op |-> "flood_fill", x |-> x, y |-> y, new_char |-> new_char,
                new_color |-> new_color]
    /\ UNCHANGED svars

CallDrawLine(start, end, char, color) ==
    /\ CanCall
    /\ LET r == draw_line_run(canvas, start, end, char, color)
       IN  canvas' = r.canvas /\ writes' = r.writes
    /\ old' = canvas
    /\ call' = [op |-> "draw_line", start |-> start, end |-> end,
                char |-> char, color |-> color]
    /\ UNCHANGED svars

\* WindowsPainter.save_canvas on the painter that holds the canvas
CallSaveCanvas ==
    /\ CanCall
    /\ Becomes(save_canvas(Self, TRUE))
    /\ call' = [op |-> "save_canvas", ok |-> TRUE]
    /\ old' = canvas
    /\ writes' = <<>>
    /\ UNCHANGED <<pc, keys>>

InitCanvas == Construct(Dims, MaxCells)

NextCanvas ==
    \/ \E m \in Matrices(canvas.width, canvas.height, GridGlyphs), tint \in BOOLEAN :
           Populate(m, tint)
    \/ \E x \in Coords, y \in Coords, char \in NewGlyphs, bg_color \in BgColors :
           CallSetPixel(x, y, char, ForeGREEN, bg_color)
    \/ \E x \in Coords, y \in Coords : CallGetPixel(x, y)
    \/ CallClear
    \/ \E x \in Coords, y \in Coords, new_char \in Glyphs :
           CallFloodFill(x, y, new_char, ForeGREEN)
    \/ CallSaveCanvas

SpecCanvas == InitCanvas /\ [][NextCanvas]_vars

InitLine == Construct(LineDims, MaxLineDim * MaxLineDim)

NextLine ==
    \/ \E m \in UniformMatrices(canvas.width, canvas.height, GridGlyphs),
          tint \in BOOLEAN :
           Populate(m, tint)
    \/ \E x0 \in LineCoords, y0 \in LineCoords, x1 \in LineCoords, y1 \in LineCoords,
          char \in GridGlyphs :
           CallDrawLine(Point(x0, y0), Point(x1, y1), char, ForeGREEN)

SpecLine == InitLine /\ [][NextLine]_vars

---------------------------------------------------------------------------
(* Canvas.flood_fill one statement at a time: the two early returns, then  *)
(* one step for every turn of "while stack".  call holds the arguments,     *)
(* original_char and the stack; pc is "while_stack" inside the loop and     *)
(* "returned" after the method.                                             *)

InitFill == Construct(Dims, MaxFillCells)

\* lines 94-101: the bounds test, original_char, the test against new_char,
\* stack = [(x, y)]
FillEnter(x, y, new_char, new_color) ==
    LET enters == in_bounds(canvas, x, y) /\ get_pixel(canvas, x, y) /= new_char
    IN  /\ CanCall
        /\ call' = [op |-> "flood_fill", x |-> x, y |-> y,
                    new_char |-> new_char, new_color |-> new_color,
                    original_char |-> get_pixel(canvas, x, y),
                    stack |-> IF enters THEN << <<x, y>> >> ELSE <<>>]
        /\ pc' = IF enters THEN "while_stack" ELSE "returned"
        /\ old' = canvas
        /\ writes' = <<>>
        /\ UNCHANGED <<canvas, cursor, current_char, current_color, current_bg,
                       drawing_mode, last_point, running, color_index,
                       char_index, screen_buffer, last_cursor,
                       needs_full_redraw, terminal, emitted, saved, keys>>

\* lines 102-110: one turn of the loop and the test "while stack" after it
FillStep ==
    /\ pc = "while_stack"
    /\ LET f == flood_fill_iter([run |-> [canvas |-> canvas, writes |-> writes],
                                 stack |-> call.stack],
                                call.original_char, call.new_char, call.new_color)
       IN  /\ canvas' = f.run.canvas
           /\ writes' = f.run.writes
           /\ call' = [call EXCEPT !.stack = f.stack]
           /\ pc' = IF f.stack = <<>> THEN "returned" ELSE "while_stack"
    /\ UNCHANGED <<old, cursor, current_char, current_color, current_bg,
                   drawing_mode, last_point, running, color_index, char_index,
                   screen_buffer, last_cursor, needs_full_redraw, terminal,
                   emitted, saved, keys>>

NextFill ==
    \/ \E m \in Matrices(canvas.width, canvas.height, GridGlyphs) :
           Populate(m, FALSE)
    \/ \E x \in Coords, y \in Coords, new_char \in Glyphs :
           FillEnter(x, y, new_char, ForeGREEN)
    \/ FillStep

\* The loop runs in the one thread of the program: a turn that can be taken
\* is taken.
SpecFill == InitFill /\ [][NextFill]_vars /\ WF_vars(FillStep)

---------------------------------------------------------------------------
(* The session: WindowsPainter(CanvasW, CanvasH).run().  pc is the next     *)
(* statement of run: the initial draw_canvas, handle_input or draw_canvas  *)
(* of the loop body (the sleep and the loop test follow draw_canvas), the   *)
(* finally block, or past it.                                               *)

\* The grey levels of the images load_image is given: one grey level
\* throughout.
Levels == {0, 128, 255}
Images(c) ==
    {[y \in 0..(c.height - 1) |-> [x \in 0..(c.width - 1) |-> v]] : v \in Levels}

Init ==
    /\ Holds(WindowsPainter(CanvasW, CanvasH))
    /\ pc = "initial_draw"
    /\ keys = 0
    /\ call = [op |-> "WindowsPainter", width |-> CanvasW, height |-> CanvasH,
               raised |-> None]
    /\ old = Canvas(CanvasW, CanvasH)
    /\ writes = <<>>

\* handle_input reading one key and running its handler
Handle(op, self, w) ==
    /\ pc = "handle_input"
    /\ keys < MaxKeys
    /\ Becomes(self)
    /\ pc' = "draw_canvas"
    /\ keys' = keys + 1
    /\ call' = op
    /\ old' = canvas
    /\ writes' = w

MoveCursor(dx, dy) ==
    Handle([op |-> "move_cursor", dx |-> dx, dy |-> dy, from |-> cursor,
            drawing_mode |-> drawing_mode],
           move_cursor(Self, dx, dy),
           IF drawing_mode
           THEN draw_line_run(canvas, cursor, new_position(Self, dx, dy),
                              current_char, current_color).writes
           ELSE <<>>)

TogglePixel ==
    Handle([op |-> "toggle_pixel"], toggle_pixel(Self), <<cursor>>)

ToggleDrawingMode ==
    Handle([op |-> "toggle_drawing_mode"], toggle_drawing_mode(Self), <<>>)

NextColor == Handle([op |-> "next_color"], next_color(Self), <<>>)

NextChar == Handle([op |-> "next_char"], next_char(Self), <<>>)

DrawLineToLast ==
    Handle([op |-> "draw_line_to_last", last_point |-> last_point],
           draw_line_to_last(Self),
           IF last_point /= None
           THEN draw_line_run(canvas, cursor, last_point,
                              current_char, current_color).writes
           ELSE <<>>)

FloodFill ==
    Handle([op |-> "flood_fill", x |-> cursor.x, y |-> cursor.y,
            new_char |-> current_char, new_color |-> current_color],
           painter_flood_fill(Self),
           flood_fill_run(canvas, cursor.x, cursor.y,
                          current_char, current_color).writes)

SaveCanvas(ok) ==
    Handle([op |-> "save_canvas", ok |-> ok], save_canvas(Self, ok), <<>>)

LoadImage(img) ==
    Handle([op |-> "load_image", img |-> img], load_image(Self, img),
           row_major(canvas.pixels, 0, 0))

\* load_image when no file name is given or the file cannot be read: the
\* handler returns, or prints the error, before any pixel is set
LoadImageFails == Handle([op |-> "load_image_fails"], Self, <<>>)

Quit == Handle([op |-> "quit"], quit(Self), <<>>)

\* a key no branch of handle_input matches
OtherKey == Handle([op |-> "other_key"], Self, <<>>)

\* msvcrt.kbhit() is false: no key is read
NoKey ==
    /\ pc = "handle_input"
    /\ pc' = "draw_canvas"
    /\ call' = [op |-> "no_key"]
    /\ old' = canvas
    /\ writes' = <<>>
    /\ UNCHANGED <<canvas, cursor, current_char, current_color, current_bg,
                   drawing_mode, last_point, running, color_index, char_index,
                   screen_buffer, last_cursor, needs_full_redraw, terminal,
                   emitted, saved, keys>>

\* draw_canvas, then time.sleep and the test "while self.running"
DrawCanvas ==
    /\ pc \in {"initial_draw", "draw_canvas"}
    /\ Becomes(draw_canvas(Self))
    /\ pc' = IF pc = "initial_draw" \/ running THEN "handle_input" ELSE "finally"
    /\ call' = [op |-> "draw_canvas",
                full |-> (needs_full_redraw \/ len(screen_buffer) = 0)]
    /\ old' = canvas
    /\ writes' = <<>>
    /\ UNCHANGED keys

\* KeyboardInterrupt raised in time.sleep
KeyboardInterrupt ==
    /\ pc = "handle_input"
    /\ pc' = "finally"
    /\ call' = [op |-> "KeyboardInterrupt"]
    /\ old' = canvas
    /\ writes' = <<>>
    /\ UNCHANGED <<canvas, cursor, current_char, current_color, current_bg,
                   drawing_mode, last_point, running, color_index, char_index,
                   screen_buffer, last_cursor, needs_full_redraw, terminal,
                   emitted, saved, keys>>

\* the finally block: show_cursor, clear_screen, the farewell
Finally ==
    /\ pc = "finally"
    /\ Becomes(clear_screen(Self))
    /\ pc' = "exited"
    /\ call' = [op |-> "finally"]
    /\ old' = canvas
    /\ writes' = <<>>
    /\ UNCHANGED keys

Next ==
    \/ \E d \in {<<0, 0 - 1>>, <<0, 1>>, <<0 - 1, 0>>, <<1, 0>>} : MoveCursor(d[1], d[2])
    \/ TogglePixel
    \/ ToggleDrawingMode
    \/ NextColor
    \/ NextChar
    \/ DrawLineToLast
    \/ FloodFill
    \/ \E ok \in BOOLEAN : SaveCanvas(ok)
    \/ \E img \in Images(canvas) : LoadImage(img)
    \/ LoadImageFails
    \/ Quit
    \/ OtherKey
    \/ NoKey
    \/ DrawCanvas
    \/ KeyboardInterrupt
    \/ Finally

Spec == Init /\ [][Next]_vars

\* The step of run that DrawCanvas takes, told by pc alone: within Next it
\* is enabled, and taken, exactly when DrawCanvas is.
DrawCanvasStep ==
    /\ pc \in {"initial_draw", "draw_canvas"}
    /\ pc' \in {"handle_input", "finally"}

\* run is one thread: draw_canvas and the finally block are executed when
\* the program is at them.  Keys are up to the user: no fairness for them.
FairSpec == Spec /\ WF_pc(DrawCanvasStep) /\ WF_vars(Finally)

---------------------------------------------------------------------------
(* Claims about Canvas                                                     *)

\* The three attributes of cell p of canvas c.
CellAt(c, p) == <<c.pixels[p.y][p.x], c.colors[p.y][p.x], c.bg_colors[p.y][p.x]>>
SameSize(c, d) == c.width = d.width /\ c.height = d.height
\* Every cell of c outside S is as in d.
SameOutside(c, d, S) ==
    SameSize(c, d) /\ \A p \in Cells(d) \ S : CellAt(c, p) = CellAt(d, p)

\* C1: after set_pixel(x, y, g, fg, bg) with (x, y) in bounds, reading cell
\* (x, y) gives exactly g, fg and bg (get_pixel gives g), and every other cell
\* is as before.
C1_SetThenGet ==
    (call.op = "set_pixel" /\ in_bounds(old, call.x, call.y)) =>
        /\ get_pixel(canvas, call.x, call.y) = call.char
        /\ CellAt(canvas, Point(call.x, call.y))
               = <<call.char, call.color, call.bg_color>>
        /\ SameOutside(canvas, old, {Point(call.x, call.y)})

\* A set_pixel in bounds that changed all three attributes of its cell, on a
\* canvas with a non-empty cell elsewhere.
C1_Witness ==
    /\ call.op = "set_pixel"
    /\ in_bounds(old, call.x, call.y)
    /\ LET p == Point(call.x, call.y)
       IN  /\ CellAt(old, p)[1] /= call.char
           /\ CellAt(old, p)[2] /= call.color
           /\ CellAt(old, p)[3] /= call.bg_color
           /\ \E q \in Cells(old) \ {p} : CellAt(canvas, q)[1] /= Space

\* C2: set_pixel out of bounds changes nothing and raises nothing; get_pixel
\* out of bounds returns the empty glyph.
C2_OutOfBounds ==
    /\ (call.op = "set_pixel" /\ ~in_bounds(old, call.x, call.y)) =>
           canvas = old /\ call.raised = None
    /\ (call.op = "get_pixel" /\ ~in_bounds(old, call.x, call.y)) =>
           call.ret = Space /\ call.raised = None /\ canvas = old

\* A set_pixel just past the right edge of a canvas none of whose cells is
\* empty.
C2_Witness ==
    /\ call.op = "set_pixel"
    /\ call.x = old.width /\ call.y = 0 /\ old.width = MaxDim /\ old.height >= 2
    /\ call.char /= Space
    /\ \A p \in Cells(old) : CellAt(old, p)[1] /= Space
    /\ canvas = old

\* The error the specification names for a bad size; nothing in the source
\* raises it.
InvalidDimension == [error |-> "InvalidDimension"]

\* C3 as claimed: constructing a canvas with width <= 0 or height <= 0 fails
\* with InvalidDimension; otherwise every cell is the default empty cell.
C3_InvalidDimension ==
    call.op = "Canvas" =>
        IF call.width <= 0 \/ call.height <= 0
        THEN call.raised = InvalidDimension
        ELSE \A p \in Cells(canvas) : CellAt(canvas, p) = <<Space, ForeWHITE, BackBLACK>>

\* The cells a run wrote.
Written == {writes[i] : i \in 1..Len(writes)}

\* C4: draw_line between two in-bounds points writes glyph and colour to
\* exactly 1 + |dx| + |dy| distinct cells, start and end among them, and
\* leaves every other cell as it was; with start = end it writes that one cell.
C4_DrawLine ==
    (/\ call.op = "draw_line"
     /\ in_bounds(old, call.start.x, call.start.y)
     /\ in_bounds(old, call.end.x, call.end.y)) =>
        LET n == 1 + abs(call.end.x - call.start.x) + abs(call.end.y - call.start.y)
        IN  /\ Len(writes) = n
            /\ Cardinality(Written) = n
            /\ call.start \in Written /\ call.end \in Written
            /\ \A p \in Written :
                   CellAt(canvas, p)[1] = call.char /\ CellAt(canvas, p)[2] = call.color
            /\ SameOutside(canvas, old, Written)
            /\ (call.start = call.end => Written = {call.start})

\* The line (0,0)-(3,0) of the specification, drawn over a tinted backdrop of
\* another glyph: exactly (0,0), (1,0), (2,0), (3,0) hold the line's glyph.
C4_Witness ==
    /\ call.op = "draw_line"
    /\ call.start = Point(0, 0) /\ call.end = Point(3, 0)
    /\ old.width = 4 /\ old.height = 4
    /\ call.char = "#"
    /\ old.pixels[0][0] = Space /\ old.colors[1][0] = ForeRED
    /\ {p \in Cells(canvas) : CellAt(canvas, p)[1] = "#"}
           = {Point(0, 0), Point(1, 0), Point(2, 0), Point(3, 0)}

\* p and q are horizontal or vertical neighbours.
Adjacent4(p, q) == abs(p.x - q.x) + abs(p.y - q.y) = 1

\* The cells of c reachable from the cells of S by 4-neighbour steps through
\* cells holding glyph g.
RECURSIVE Reach4(_, _, _)
Reach4(c, g, S) ==
    LET T == S \cup {q \in Cells(c) :
                        c.pixels[q.y][q.x] = g /\ \E p \in S : Adjacent4(p, q)}
    IN  IF T = S THEN S ELSE Reach4(c, g, T)

Region(c, x, y) == Reach4(c, c.pixels[y][x], {Point(x, y)})

\* C5: flood_fill from an in-bounds seed whose glyph differs from new_char
\* rewrites to new_char and new_color exactly the 4-connected region of the
\* seed's glyph (whatever the cells' colours) and leaves every other cell as
\* it was.
C5_FloodFill ==
    (/\ call.op = "flood_fill"
     /\ in_bounds(old, call.x, call.y)
     /\ old.pixels[call.y][call.x] /= call.new_char) =>
        LET R == Region(old, call.x, call.y)
        IN  /\ \A p \in R : CellAt(canvas, p)[1] = call.new_char
                         /\ CellAt(canvas, p)[2] = call.new_color
            /\ SameOutside(canvas, old, R)
            /\ Written = R

\* A fill stopped by a diagonal barrier: two cells with the seed's glyph touch
\* only diagonally, one is filled and the other keeps its glyph; the filled
\* region held cells of different colours.
C5_Witness ==
    /\ call.op = "flood_fill"
    /\ in_bounds(old, call.x, call.y)
    /\ old.pixels[call.y][call.x] /= call.new_char
    /\ LET R == Region(old, call.x, call.y)
           g == old.pixels[call.y][call.x]
       IN  /\ \E p \in R, q \in Cells(old) \ R :
                  /\ abs(p.x - q.x) = 1 /\ abs(p.y - q.y) = 1
                  /\ old.pixels[q.y][q.x] = g
                  /\ canvas.pixels[q.y][q.x] = g
                  /\ canvas.pixels[p.y][p.x] = call.new_char
           /\ \E p \in R, q \in R : CellAt(old, p)[2] /= CellAt(old, q)[2]
           /\ Cardinality(R) >= 3

\* C6: flood_fill changes nothing when the seed is out of bounds or its glyph
\* already is new_char, whatever new_color; and a second flood_fill with the
\* same arguments changes nothing.
C6_FloodFillNoOp ==
    call.op = "flood_fill" =>
        /\ (~in_bounds(old, call.x, call.y) => canvas = old)
        /\ (in_bounds(old, call.x, call.y)
              /\ old.pixels[call.y][call.x] = call.new_char => canvas = old)
        /\ flood_fill(canvas, call.x, call.y, call.new_char, call.new_color) = canvas

\* A fill with the glyph the seed already holds, in another colour, on a
\* canvas where the seed's region has several cells.
C6_Witness ==
    /\ call.op = "flood_fill"
    /\ in_bounds(old, call.x, call.y)
    /\ old.pixels[call.y][call.x] = call.new_char
    /\ old.colors[call.y][call.x] /= call.new_color
    /\ call.new_char /= Space
    /\ Cardinality(Region(old, call.x, call.y)) >= 3
    /\ canvas = old

---------------------------------------------------------------------------
(* Claims about the renderer and the cursor                                *)

Emitted == {emitted[i] : i \in 1..Len(emitted)}

\* C7: when draw_canvas takes its incremental branch (no full redraw is
\* flagged and a previous frame is retained), it prints cell (x, y) if and
\* only if the cell's rendered text differs from the retained frame's, and
\* prints it once: equal frames print nothing, frames differing in one cell
\* print exactly that cell.
C7_DiffRender ==
    [][(call'.op = "draw_canvas" /\ ~call'.full) =>
        LET frame == render_screen(Self)
            differing == {p \in Cells(canvas) :
                             frame[p.y][p.x] /= screen_buffer[p.y][p.x]}
        IN  /\ Emitted' = differing
            /\ Len(emitted') = Cardinality(differing)
            /\ (frame = screen_buffer => emitted' = <<>>)
            /\ \A p \in Cells(canvas) : differing = {p} => emitted' = <<p>>
    ]_vars

\* An incremental draw_canvas after a key that changed one cell's glyph
\* without moving the cursor or invalidating the frame: the one cell printed
\* is the cursor's.
C7_Witness ==
    /\ call.op = "draw_canvas" /\ ~call.full
    /\ emitted = <<cursor>>
    /\ canvas.pixels[cursor.y][cursor.x] /= Space
    /\ \A y \in DOMAIN screen_buffer : \A x \in DOMAIN screen_buffer[y] :
           screen_buffer[y][x] /= None

\* The cell text of (x, y) when the cursor is there.
Highlighted(c, x, y) ==
    [bg_color |-> BackWHITE, color |-> ForeBLACK,
     char |-> IF c.pixels[y][x] = Space THEN Plus ELSE c.pixels[y][x],
     reset |-> StyleRESET_ALL]

\* C8: draw_canvas changes no cell of the canvas, nor the cursor, the mode,
\* last_point, the palette indices or the current attributes; the cursor's
\* highlight ('+' for an empty cell, black on white) is in the frame only.
C8_RenderIsOverlay ==
    /\ [][call'.op = "draw_canvas" =>
            UNCHANGED <<canvas, cursor, drawing_mode, last_point, color_index,
                        char_index, current_char, current_color, current_bg>>
       ]_vars
    /\ [](call.op = "draw_canvas" =>
            /\ screen_buffer[cursor.y][cursor.x]
                   = Highlighted(canvas, cursor.x, cursor.y)
            /\ terminal[<<cursor.x, cursor.y>>]
                   = Highlighted(canvas, cursor.x, cursor.y)
            /\ canvas = old)

\* After a draw_canvas in DRAW mode with the cursor on an empty cell of a
\* canvas that holds painted cells: the frame shows '+' there, the canvas
\* still holds the space.
C8_Witness ==
    /\ call.op = "draw_canvas"
    /\ drawing_mode
    /\ last_point /= None
    /\ canvas.pixels[cursor.y][cursor.x] = Space
    /\ screen_buffer[cursor.y][cursor.x].char = Plus
    /\ \E p \in Cells(canvas) : canvas.pixels[p.y][p.x] \notin {Space, Plus}

\* C9: the cursor is always inside the canvas.
C9_CursorInBounds ==
    /\ 0 <= cursor.x /\ cursor.x <= canvas.width - 1
    /\ 0 <= cursor.y /\ cursor.y <= canvas.height - 1

\* A move to the right in DRAW mode with the cursor already in the last
\* column of the last row, after a move down in that column.
C9_Witness ==
    /\ call.op = "move_cursor" /\ call.dx = 1
    /\ call.drawing_mode
    /\ call.from = Point(CanvasW - 1, CanvasH - 1)
    /\ cursor = Point(CanvasW - 1, CanvasH - 1)

\* C10: a move in DRAW mode leaves the cursor at the clamped new position
\* with the cells at the old and the new position holding the current glyph
\* and colour, and no other cell changed.
C10_DrawMove ==
    (call.op = "move_cursor" /\ call.drawing_mode) =>
        /\ cursor = Point(max(0, min(CanvasW - 1, call.from.x + call.dx)),
                          max(0, min(CanvasH - 1, call.from.y + call.dy)))
        /\ \A p \in {call.from, cursor} :
               /\ canvas.pixels[p.y][p.x] = current_char
               /\ canvas.colors[p.y][p.x] = current_color
        /\ SameOutside(canvas, old, {call.from, cursor})
        /\ Written = {call.from, cursor}

\* A DRAW-mode move to a neighbouring cell with a colour other than the
\* default, from an empty cell, on a canvas with another painted cell.
C10_Witness ==
    /\ call.op = "move_cursor" /\ call.drawing_mode
    /\ cursor /= call.from
    /\ current_color /= ForeWHITE
    /\ old.pixels[call.from.y][call.from.x] = Space
    /\ old.pixels[cursor.y][cursor.x] = Space
    /\ \E p \in Cells(old) : old.pixels[p.y][p.x] /= Space

---------------------------------------------------------------------------
(* Claims about the key handlers                                           *)

\* The default empty cell: a space, white on black.
DefaultCell == <<Space, ForeWHITE, BackBLACK>>

\* C11: toggle_pixel changes only the cell under the cursor: a cell whose
\* glyph is the space gets the current glyph, colour and background, any
\* other cell becomes the default empty cell whatever colours are current;
\* last_point becomes the cursor position, and the cursor stays.
C11_TogglePixel ==
    /\ [](call.op = "toggle_pixel" =>
            /\ SameOutside(canvas, old, {cursor})
            /\ CellAt(canvas, cursor) =
                   IF old.pixels[cursor.y][cursor.x] = Space
                   THEN <<current_char, current_color, current_bg>>
                   ELSE DefaultCell
            /\ last_point = cursor)
    /\ [][call'.op = "toggle_pixel" =>
            UNCHANGED <<cursor, current_char, current_color, current_bg>>]_vars

\* A toggle_pixel that cleared a painted cell while a colour other than the
\* default was current, away from the origin, other painted cells remaining.
C11_Witness ==
    /\ call.op = "toggle_pixel"
    /\ old.pixels[cursor.y][cursor.x] /= Space
    /\ CellAt(canvas, cursor) = DefaultCell
    /\ current_color /= ForeWHITE
    /\ cursor /= Point(0, 0)
    /\ \E p \in Cells(canvas) : canvas.pixels[p.y][p.x] /= Space

\* C12: draw_line_to_last leaves the canvas as it is while last_point is
\* None; otherwise it writes the current glyph and colour on a line of
\* 1 + |dx| + |dy| cells from the cursor to last_point, both ends included,
\* and no other cell.  last_point is the cursor position of the latest
\* toggle_pixel, the origin included: only toggle_pixel assigns it.  The
\* handler moves neither the cursor nor last_point.
C12_DrawLineToLast ==
    /\ [](call.op = "draw_line_to_last" =>
            IF call.last_point = None
            THEN canvas = old
            ELSE LET a == cursor
                     b == call.last_point
                 IN  /\ {a, b} \subseteq Written
                     /\ Cardinality(Written) = 1 + abs(b.x - a.x) + abs(b.y - a.y)
                     /\ Len(writes) = Cardinality(Written)
                     /\ \A p \in Written :
                            /\ min(a.x, b.x) <= p.x /\ p.x <= max(a.x, b.x)
                            /\ min(a.y, b.y) <= p.y /\ p.y <= max(a.y, b.y)
                            /\ canvas.pixels[p.y][p.x] = current_char
                            /\ canvas.colors[p.y][p.x] = current_color
                     /\ SameOutside(canvas, old, Written))
    /\ [][call'.op = "draw_line_to_last" =>
            UNCHANGED <<cursor, last_point, current_char, current_color>>]_vars
    /\ [][last_point' /= last_point =>
            call'.op = "toggle_pixel" /\ last_point' = cursor']_vars
    /\ [](keys = 0 => last_point = None)

\* A draw_line_to_last whose last_point is the origin, with the cursor in
\* another row and another column: the line is drawn across empty cells.
C12_Witness ==
    /\ call.op = "draw_line_to_last"
    /\ call.last_point = Point(0, 0)
    /\ cursor.x > 0 /\ cursor.y > 0
    /\ old.pixels[cursor.y][cursor.x] = Space
    /\ canvas.pixels[cursor.y][cursor.x] = current_char
    /\ canvas /= old

\* Reading a saved text back: every line padded with spaces to the width.
parse_line(line, width) ==
    [x \in 0..(width - 1) |-> IF x < Len(line) THEN line[x + 1] ELSE Space]
parse(lines, width) ==
    [y \in 0..(Len(lines) - 1) |-> parse_line(lines[y + 1], width)]

\* C13: a save_canvas that succeeds writes one line per row of the canvas;
\* each line is the row's glyphs up to the last one that is not a space
\* (nothing but spaces is cut, and no space ends a line); padding the lines
\* with spaces to the width gives back the glyphs of the canvas; and the
\* canvas is as it was before the save.
C13_SaveRoundTrip ==
    (call.op = "save_canvas" /\ call.ok) =>
        /\ saved /= None
        /\ Len(saved.lines) = max(canvas.height, 0)
        /\ \A y \in 1..Len(saved.lines) :
               LET line == saved.lines[y]
                   row == join_row(canvas, y - 1)
               IN  /\ Len(line) <= Len(row)
                   /\ line = SubSeq(row, 1, Len(line))
                   /\ line /= <<>> => line[Len(line)] /= Space
                   /\ \A i \in (Len(line) + 1)..Len(row) : row[i] = Space
        /\ parse(saved.lines, canvas.width) = canvas.pixels
        /\ canvas = old

\* A save of a canvas three cells wide with a row that is space, glyph,
\* space (the leading space is kept, the trailing one cut), a row of spaces
\* only (an empty line) and a row that ends in a glyph.
C13_Witness ==
    /\ call.op = "save_canvas" /\ call.ok
    /\ canvas.width = 3 /\ canvas.height = 3
    /\ \E y \in 0..2 : /\ canvas.pixels[y][0] = Space
                       /\ canvas.pixels[y][1] /= Space
                       /\ canvas.pixels[y][2] = Space
                       /\ saved.lines[y + 1] = <<Space, canvas.pixels[y][1]>>
    /\ \E y \in 0..2 : saved.lines[y + 1] = <<>>
    /\ \E y \in 0..2 : Len(saved.lines[y + 1]) = 3

---------------------------------------------------------------------------
(* Claims about the loop of flood_fill                                     *)

\* The cells of the canvas that still hold the glyph being replaced, five
\* times over, plus the length of the stack: what the loop has left to do.
FillMeasure ==
    5 * Cardinality({p \in Cells(canvas) :
                        canvas.pixels[p.y][p.x] = call.original_char})
      + Len(call.stack)

\* C14: flood_fill terminates for every canvas and seed: once in the loop,
\* the stack becomes empty and the method returns; every turn of the loop
\* lowers FillMeasure, which is never negative.  During one flood_fill no
\* cell is written twice.
C14_FloodFillTerminates ==
    /\ (pc = "while_stack") ~> (pc = "returned" /\ call.stack = <<>>)
    /\ [][pc = "while_stack" =>
            /\ FillMeasure' < FillMeasure
            /\ FillMeasure' >= 0]_vars
    /\ [](call.op = "flood_fill" =>
            \A i, j \in 1..Len(writes) : writes[i] = writes[j] => i = j)

\* A flood_fill that has returned after writing all six cells of a canvas,
\* seeded in its middle column: cells were pushed again by several
\* neighbours and written once.
C14_Witness ==
    /\ call.op = "flood_fill" /\ pc = "returned"
    /\ Len(writes) = 6
    /\ call.x = 1
    /\ Written = Cells(canvas)
    /\ \A p \in Cells(canvas) : canvas.pixels[p.y][p.x] = call.new_char

---------------------------------------------------------------------------
(* Claims about the session                                                *)

\* Every cell of the retained frame is marked invalid.
Invalidated ==
    /\ len(screen_buffer) = canvas.height
    /\ \A y \in DOMAIN screen_buffer :
           /\ len(screen_buffer[y]) = canvas.width
           /\ \A x \in DOMAIN screen_buffer[y] : screen_buffer[y][x] = None

\* C15: a draw_canvas that finds no retained frame (the first one), the
\* full-redraw flag set, or the retained frame invalidated prints every cell
\* of the canvas, each once; toggle_pixel, flood_fill and a draw_line_to_last
\* with last_point set leave the frame invalidated, load_image sets the
\* flag; and a draw_canvas that follows a draw_canvas with nothing in
\* between but an idle handle_input prints no cell.
C15_FullThenNothing ==
    /\ [][(call'.op = "draw_canvas"
             /\ (len(screen_buffer) = 0 \/ needs_full_redraw \/ Invalidated)) =>
            /\ Emitted' = Cells(canvas)
            /\ Len(emitted') = canvas.width * canvas.height]_vars
    /\ [](call.op = "WindowsPainter" => len(screen_buffer) = 0)
    /\ []((\/ call.op \in {"toggle_pixel", "flood_fill"}
           \/ (call.op = "draw_line_to_last" /\ call.last_point /= None))
          => Invalidated)
    /\ [](call.op = "load_image" => needs_full_redraw)
    /\ [][(call.op \in {"no_key", "other_key"} /\ call'.op = "draw_canvas") =>
            emitted' = <<>>]_vars

\* An incremental draw_canvas that printed all the cells although the canvas
\* holds a single painted cell and the cursor has not moved: the frame had
\* been invalidated.
C15_Witness ==
    /\ call.op = "draw_canvas" /\ ~call.full
    /\ Len(emitted) = CanvasW * CanvasH
    /\ Emitted = Cells(canvas)
    /\ Cardinality({p \in Cells(canvas) : canvas.pixels[p.y][p.x] /= Space}) = 1
    /\ cursor = Point(0, 0)
    /\ last_point /= None

\* C16: toggle_drawing_mode negates drawing_mode and changes nothing else;
\* move_cursor in MOVE mode puts the cursor on the neighbouring cell clamped
\* to the canvas and changes nothing else; so neither changes a cell.
C16_ModeAndMove ==
    /\ [][call'.op = "toggle_drawing_mode" =>
            /\ drawing_mode' = ~drawing_mode
            /\ UNCHANGED <<canvas, cursor, current_char, current_color,
                           current_bg, last_point, running, color_index,
                           char_index, screen_buffer, last_cursor,
                           needs_full_redraw, terminal, emitted, saved>>]_vars
    /\ [][(call'.op = "move_cursor" /\ ~drawing_mode) =>
            /\ cursor' = Point(max(0, min(canvas.width - 1, cursor.x + call'.dx)),
                               max(0, min(canvas.height - 1, cursor.y + call'.dy)))
            /\ UNCHANGED <<canvas, drawing_mode, current_char, current_color,
                           current_bg, last_point, running, color_index,
                           char_index, screen_buffer, last_cursor,
                           needs_full_redraw, terminal, emitted, saved>>]_vars
    /\ [](call.op = "toggle_drawing_mode" \/
          (call.op = "move_cursor" /\ ~call.drawing_mode) => canvas = old)

\* A move in MOVE mode, after DRAW mode was switched on and off again, from
\* a painted cell to an empty neighbour, which stays empty.
C16_Witness ==
    /\ call.op = "move_cursor" /\ ~call.drawing_mode
    /\ cursor /= call.from
    /\ canvas.pixels[call.from.y][call.from.x] /= Space
    /\ canvas.pixels[cursor.y][cursor.x] = Space
    /\ keys >= 4

\* next_color and next_char applied n times over
RECURSIVE next_color_times(_, _)
next_color_times(self, n) ==
    IF n = 0 THEN self ELSE next_color_times(next_color(self), n - 1)
RECURSIVE next_char_times(_, _)
next_char_times(self, n) ==
    IF n = 0 THEN self ELSE next_char_times(next_char(self), n - 1)

\* C17: next_color and next_char advance their index by one modulo the
\* length of the palette and change no cell; at all times the indices are
\* within the palettes and current_color and current_char are the palette's
\* entries at those indices; as many steps as the palette is long lead back
\* to where they started.
C17_Palettes ==
    /\ [][call'.op = "next_color" =>
            /\ color_index' = (color_index + 1) % Len(colors)
            /\ UNCHANGED <<canvas, char_index, current_char>>]_vars
    /\ [][call'.op = "next_char" =>
            /\ char_index' = (char_index + 1) % Len(chars)
            /\ UNCHANGED <<canvas, color_index, current_color>>]_vars
    /\ [](/\ color_index \in 0..(Len(colors) - 1)
          /\ char_index \in 0..(Len(chars) - 1)
          /\ current_color = colors[color_index + 1][1]
          /\ current_char = chars[char_index + 1]
          /\ next_color_times(Self, Len(colors)) = Self
          /\ next_char_times(Self, Len(chars)) = Self)

\* A next_char that wrapped round to the first glyph after the whole glyph
\* palette was gone through, on a canvas with a cell painted with a later
\* glyph.
C17_Witness ==
    /\ call.op = "next_char"
    /\ char_index = 0 /\ current_char = chars[1]
    /\ keys >= Len(chars)
    /\ \E p \in Cells(canvas) : canvas.pixels[p.y][p.x] \notin {Space, chars[1]}

\* C18: the quit key makes running false; from then on running stays false,
\* handle_input is not entered again (no key is read and nothing the keys
\* act on changes), one draw_canvas at most follows and leads to the finally
\* block, and run comes to its end.
C18_Quit ==
    /\ [](call.op = "quit" => ~running)
    /\ [](~running => pc \in {"draw_canvas", "finally", "exited"})
    /\ [][~running =>
            /\ ~running'
            /\ keys' = keys
            /\ call'.op \in {"draw_canvas", "finally"}
            /\ UNCHANGED <<canvas, cursor, drawing_mode, last_point,
                           color_index, char_index, current_char,
                           current_color, current_bg, saved>>]_vars
    /\ [][(~running /\ call'.op = "draw_canvas") =>
            pc = "draw_canvas" /\ pc' = "finally"]_vars
    /\ (~running) ~> (pc = "exited")

\* run has ended after a quit that came while more keys could have been
\* read, with painted cells on the canvas.
C18_Witness ==
    /\ pc = "exited" /\ ~running
    /\ call.op = "finally"
    /\ keys < MaxKeys
    /\ \E p \in Cells(canvas) : canvas.pixels[p.y][p.x] /= Space

\* The text draw_canvas gives cell p: the cell's own glyph and colours, or
\* the highlight where the cursor is.
Rendering(p) ==
    IF p = cursor
    THEN Highlighted(canvas, p.x, p.y)
    ELSE [bg_color |-> canvas.bg_colors[p.y][p.x],
          color |-> canvas.colors[p.y][p.x],
          char |-> canvas.pixels[p.y][p.x],
          reset |-> StyleRESET_ALL]

\* C19: after every draw_canvas the retained frame has the size of the
\* canvas and holds in every cell the text just rendered for it (no cell is
\* left marked invalid), the terminal shows that text at every cell of the
\* canvas area, and the full-redraw flag is down.
C19_FrameInSync ==
    call.op = "draw_canvas" =>
        /\ len(screen_buffer) = canvas.height
        /\ \A y \in DOMAIN screen_buffer : len(screen_buffer[y]) = canvas.width
        /\ \A p \in Cells(canvas) :
               /\ screen_buffer[p.y][p.x] /= None
               /\ screen_buffer[p.y][p.x] = Rendering(p)
               /\ <<p.x, p.y>> \in DOMAIN terminal
               /\ terminal[<<p.x, p.y>>] = Rendering(p)
        /\ ~needs_full_redraw

\* An incremental draw_canvas after the cursor left a painted cell for an
\* empty one: two cells were printed, the others are on the terminal from
\* earlier frames.
C19_Witness ==
    /\ call.op = "draw_canvas" /\ ~call.full
    /\ Len(emitted) = 2
    /\ cursor \in Emitted
    /\ canvas.pixels[cursor.y][cursor.x] = Space
    /\ \E p \in Emitted : canvas.pixels[p.y][p.x] \notin {Space, Plus}
    /\ current_color /= ForeWHITE

\* The canvas after one more toggle_pixel in the current state.
ToggledAgain == toggle_pixel(Self).canvas

\* C20 as stated: after a toggle_pixel on a default empty cell, with any
\* glyph and colour of the palettes current, a second toggle_pixel gives the
\* canvas as it was before the first.
C20_ToggleTwice ==
    (call.op = "toggle_pixel" /\ CellAt(old, cursor) = DefaultCell) =>
        ToggledAgain = old

\* C20 amended: after a toggle_pixel on a default empty cell, a second
\* toggle_pixel leaves every other cell as it was before the first, and
\* makes the cell the default empty cell again unless the current glyph is
\* the space and the current colour is not the default one; then both
\* toggles find a space and write the space with the current colour, which
\* the cell keeps.
C20_ToggleTwiceAmended ==
    (call.op = "toggle_pixel" /\ CellAt(old, cursor) = DefaultCell) =>
        /\ SameOutside(ToggledAgain, old, {cursor})
        /\ CellAt(ToggledAgain, cursor) =
               IF current_char = Space /\ current_color /= ForeWHITE
               THEN <<Space, current_color, current_bg>>
               ELSE DefaultCell

\* The second of two toggle_pixel on a cell away from the origin, with a
\* glyph and a colour other than the first of their palettes: the cell the
\* first one painted is the default empty cell again.
C20_Witness ==
    /\ call.op = "toggle_pixel"
    /\ CellAt(old, cursor) = <<current_char, current_color, current_bg>>
    /\ current_char \notin {Space, chars[1]}
    /\ current_color /= ForeWHITE
    /\ cursor /= Point(0, 0)
    /\ canvas = Canvas(CanvasW, CanvasH)
    /\ keys >= 5

=============================================================================
